---- MODULE Spec2Model ----
(***************************************************************************)
(* A model of the retail-analytics copilot's orchestration core:           *)
(* HybridAgent (src/agent/graph_hybrid.py), the DSPy modules it calls      *)
(* (src/agent/dspy_signatures.py) and the adapters around the document     *)
(* index and the relational engine.  One behaviour is one call of          *)
(* HybridAgent.run: the graph's nodes are the actions, pc names the node   *)
(* that runs next, and the other variables are the fields of AgentState.   *)
(*                                                                         *)
(* Python values are tagged records (field t), texts are sequences of      *)
(* lexemes (one character each, except the words "null", "json", "sql"     *)
(* and the code fence (three backquotes), which are kept whole), floats are exact       *)
(* decimals: thousandths for answers, 1/1200 for confidences.              *)
(***************************************************************************)
EXTENDS Integers, Sequences, FiniteSets, TLC

VARIABLES
    pc,                \* the graph node that runs next, "END" or "RAISED"
    question,          \* AgentState['question']
    format_hint,       \* AgentState['format_hint']
    route,             \* AgentState['route']
    retrieved_chunks,  \* AgentState['retrieved_chunks']
    constraints,       \* AgentState['constraints']
    sql_query,         \* AgentState['sql_query']
    sql_results,       \* AgentState['sql_results']
    sql_error,         \* AgentState['sql_error']
    final_answer,      \* AgentState['final_answer']
    explanation,       \* AgentState['explanation']
    confidence,        \* AgentState['confidence']
    citations,         \* AgentState['citations']
    repair_count,      \* AgentState['repair_count']
    max_repairs,       \* AgentState['max_repairs']
    nl2sql_calls,      \* history: calls of self.nl2sql made by this run
    router_called_model, \* history: whether the router called the model
    synth_result,      \* history: what self.synthesizer returned to synthesizer_node
    router_answer,     \* history: the text the model answered the router with
    search_calls,      \* history: calls of self.retriever.search made by this run
    docs_dir,          \* the documents directory DocumentRetriever reads
    error_feedback,    \* history: the error_feedback given to the last call of self.nl2sql
    executed_query,    \* history: the query given to the last call of execute_sql, <<>> before it
    trace,             \* history: the nodes this run has run, in order
    runs,              \* the AgentStates of two runs on one agent (two-run model)
    batch              \* the batch driver's loop: questions, position, results

vars == <<pc, question, format_hint, route, retrieved_chunks, constraints,
          sql_query, sql_results, sql_error, final_answer, explanation,
          confidence, citations, repair_count, max_repairs, nl2sql_calls,
          router_called_model, synth_result, router_answer, search_calls,
          docs_dir, error_feedback, executed_query, trace, runs, batch>>

(***************************************************************************)
(* Bounds of the model.                                                    *)
(***************************************************************************)
\* largest max_repairs passed to run
MaxRepairsBound == 3
\* longest raw answer text drawn over Alphabet
MaxLen == 3

(***************************************************************************)
(* Python values.                                                          *)
(***************************************************************************)
PyNone == [t |-> "none"]
PyInt(n) == [t |-> "int", n |-> n]
\* a float, in thousandths
PyFloat(m) == [t |-> "float", m |-> m]
PyStr(s) == [t |-> "str", s |-> s]
PyBytes == [t |-> "bytes"]
PyList(items) == [t |-> "list", items |-> items]
\* a dict: its (key, value) pairs in insertion order
PyDict(pairs) == [t |-> "dict", pairs |-> pairs]

\* a dict as a function, for AgentState's constraints
EmptyDict == <<>>
DictSet(d, k, v) == [x \in (DOMAIN d) \cup {k} |-> IF x = k THEN v ELSE d[x]]

Min2(a, b) == IF a < b THEN a ELSE b
Max2(a, b) == IF a > b THEN a ELSE b

RECURSIVE Pow10(_)
Pow10(k) == IF k = 0 THEN 1 ELSE 10 * Pow10(k - 1)

RECURSIVE SeqsUpTo(_, _)
\* every sequence over S of length at most n
SeqsUpTo(S, n) ==
    IF n = 0 THEN {<<>>}
    ELSE LET shorter == SeqsUpTo(S, n - 1)
         IN  shorter \cup {Append(s, c) : s \in shorter, c \in S}

(***************************************************************************)
(* Texts and the text operations of _parse_answer.                         *)
(***************************************************************************)
Digits == {"0", "7"}
Whitespace == {" ", "\n"}
\* the code fence, three backquotes, as one lexeme
Fence == "FENCE"
\* the characters raw answer texts are drawn over
Alphabet == Digits \cup {".", "a", "[", "]", "{", "}"}

DigitVal(c) == IF c = "7" THEN 7 ELSE 0

RECURSIVE LStrip(_)
LStrip(s) == IF s # <<>> /\ Head(s) \in Whitespace THEN LStrip(Tail(s)) ELSE s

RECURSIVE RStrip(_)
RStrip(s) ==
    IF s # <<>> /\ s[Len(s)] \in Whitespace
    THEN RStrip(SubSeq(s, 1, Len(s) - 1))
    ELSE s

\* str.strip()
Strip(s) == RStrip(LStrip(s))

RECURSIVE FenceScan(_, _)
\* re.sub of an opening fence line (fence, json or sql or nothing, newline) and
\* of a fence that ends a line, under re.MULTILINE, from position i
FenceScan(s, i) ==
    IF i > Len(s) THEN <<>>
    ELSE LET atLineStart == i = 1 \/ s[i - 1] = "\n"
             opening ==
                 IF s[i] = Fence /\ atLineStart
                 THEN IF i + 2 <= Len(s) /\ s[i + 1] \in {"json", "sql"} /\ s[i + 2] = "\n"
                      THEN 3
                      ELSE IF i + 1 <= Len(s) /\ s[i + 1] = "\n" THEN 2 ELSE 0
                 ELSE 0
             closing ==
                 IF s[i] = Fence /\ (i = Len(s) \/ s[i + 1] = "\n") THEN 1 ELSE 0
             n == IF opening > 0 THEN opening ELSE closing
         IN  IF n > 0 THEN FenceScan(s, i + n) ELSE <<s[i]>> \o FenceScan(s, i + 1)

RemoveFences(s) == FenceScan(s, 1)

RECURSIVE RunFrom(_, _, _)
\* the longest run of characters of class C that starts at position i
RunFrom(s, i, C) ==
    IF i <= Len(s) /\ s[i] \in C THEN <<s[i]>> \o RunFrom(s, i + 1, C) ELSE <<>>

RECURSIVE FirstRunAt(_, _, _)
FirstRunAt(s, i, C) ==
    IF i > Len(s) THEN <<>>
    ELSE IF s[i] \in C THEN RunFrom(s, i, C)
    ELSE FirstRunAt(s, i + 1, C)

\* re.search(r'[C]+', s): the match's text, <<>> when there is no match
FirstRun(s, C) == FirstRunAt(s, 1, C)

RECURSIVE DigitsValue(_)
\* int() of a run of digits
DigitsValue(ds) ==
    IF ds = <<>> THEN 0
    ELSE 10 * DigitsValue(SubSeq(ds, 1, Len(ds) - 1)) + DigitVal(ds[Len(ds)])

RECURSIVE Without(_, _)
Without(s, c) ==
    IF s = <<>> THEN <<>>
    ELSE IF Head(s) = c THEN Without(Tail(s), c)
    ELSE <<Head(s)>> \o Without(Tail(s), c)

CountOf(s, c) == Len(s) - Len(Without(s, c))

\* position of the first c in s, Len(s) + 1 when there is none
RECURSIVE IndexOf(_, _, _)
IndexOf(s, c, i) ==
    IF i > Len(s) THEN Len(s) + 1
    ELSE IF s[i] = c THEN i ELSE IndexOf(s, c, i + 1)

\* the number of digits after the dot of a run of digits and dots
Decimals(run) == Len(run) - Min2(IndexOf(run, ".", 1), Len(run))

\* whether float() accepts a run of digits and dots: one dot at most, one digit at least
FloatAccepts(run) == CountOf(run, ".") <= 1 /\ Len(Without(run, ".")) >= 1

\* round(x, 2), in thousandths, of the decimal n / 10^k
Round2Decimal(n, k) == ((2 * n * 100 + Pow10(k)) \div (2 * Pow10(k))) * 10

\* round(float(run), 2) for a run that float() accepts
RoundFloatOfRun(run) == Round2Decimal(DigitsValue(Without(run, ".")), Decimals(run))

\* round(float(v), 2) for an int or a float value
RoundFloatOfValue(v) ==
    IF v.t = "int" THEN PyFloat(v.n * 1000)
    ELSE PyFloat(Round2Decimal(v.m, 3))

(***************************************************************************)
(* json.loads, on the texts of the model: a number, null, an array of at   *)
(* most one element or an empty object, with whitespace around it (the     *)
(* alphabet holds no comma, quote or sign).                                *)
(***************************************************************************)
JsonFail == [ok |-> FALSE, v |-> PyNone]
JsonOk(v) == [ok |-> TRUE, v |-> v]

\* a JSON number: int part without a leading zero, then an optional fraction
IsJsonNumber(w) ==
    /\ w # <<>>
    /\ \A i \in 1..Len(w) : w[i] \in Digits \cup {"."}
    /\ CountOf(w, ".") <= 1
    /\ LET dot == IndexOf(w, ".", 1)
       IN  /\ dot > 1
           /\ dot # Len(w)
           /\ (dot > 2 => w[1] # "0")

JsonNumber(w) ==
    IF CountOf(w, ".") = 0 THEN PyInt(DigitsValue(w))
    ELSE PyFloat((DigitsValue(Without(w, ".")) * 1000) \div Pow10(Decimals(w)))

RECURSIVE JsonLoads(_)
JsonLoads(s) ==
    LET w == Strip(s)
    IN  IF w = <<>> THEN JsonFail
        ELSE IF w = <<"null">> THEN JsonOk(PyNone)
        ELSE IF IsJsonNumber(w) THEN JsonOk(JsonNumber(w))
        ELSE IF Len(w) >= 2 /\ w[1] = "[" /\ w[Len(w)] = "]"
        THEN LET inner == Strip(SubSeq(w, 2, Len(w) - 1))
             IN  IF inner = <<>> THEN JsonOk(PyList(<<>>))
                 ELSE LET e == JsonLoads(inner)
                      IN  IF e.ok THEN JsonOk(PyList(<<e.v>>)) ELSE JsonFail
        ELSE IF Len(w) >= 2 /\ w[1] = "{" /\ w[Len(w)] = "}"
                /\ Strip(SubSeq(w, 2, Len(w) - 1)) = <<>>
        THEN JsonOk(PyDict(<<>>))
        ELSE JsonFail

(***************************************************************************)
(* The relational engine's results and _parse_answer.                      *)
(***************************************************************************)
None == "<None>"

\* AgentState's initial sql_results, the empty dict
NoResults == [present |-> FALSE, success |-> FALSE, rows |-> <<>>, error |-> None]
ExecSuccess(rows) == [present |-> TRUE, success |-> TRUE, rows |-> rows, error |-> None]
ExecFailure(err) == [present |-> TRUE, success |-> FALSE, rows |-> <<>>, error |-> err]

\* sql_results and sql_results.get('rows')
HasRows(res) == res.present /\ res.rows # <<>>

HintInt == "int"
HintFloat == "float"
\* the hints that start with a brace
ObjectHints == {"{category:str, quantity:int}"}
\* the hints that start with the word list
ListHints == {"list[{product:str, revenue:float}]"}
FormatHints == {HintInt, HintFloat, "str"} \cup ObjectHints \cup ListHints

IsNumeric(v) == v.t \in {"int", "float"}

RECURSIVE FirstNumeric(_, _)
\* the first int or float among a row's values from column i on, PyNone when there is none
FirstNumeric(pairs, i) ==
    IF i > Len(pairs) THEN PyNone
    ELSE IF IsNumeric(pairs[i][2]) THEN pairs[i][2]
    ELSE FirstNumeric(pairs, i + 1)

\* the except branch of _parse_answer
ParseExcept(a, hint, res) ==
    IF HasRows(res) /\ hint \in ListHints THEN PyList(res.rows)
    ELSE IF HasRows(res) /\ hint \in ObjectHints THEN res.rows[1]
    ELSE PyStr(a)

ParseIntNoFallback(a) ==
    LET run == FirstRun(a, Digits)
    IN  IF run # <<>> THEN PyInt(DigitsValue(run)) ELSE PyStr(a)

\* format_hint == 'int'
ParseInt(a) ==
    LET run == FirstRun(a, Digits)
    IN  IF run # <<>> THEN PyInt(DigitsValue(run)) ELSE PyInt(0)

\* format_hint == 'float'
ParseFloat(a, hint, res) ==
    LET run == FirstRun(a, Digits \cup {"."})
    IN  IF run # <<>>
        THEN IF FloatAccepts(run) THEN PyFloat(RoundFloatOfRun(run))
             ELSE ParseExcept(a, hint, res)
        ELSE IF HasRows(res) /\ FirstNumeric(res.rows[1].pairs, 1) # PyNone
        THEN RoundFloatOfValue(FirstNumeric(res.rows[1].pairs, 1))
        ELSE PyFloat(0)

\* format_hint.startswith('{')
ParseObject(a, res) ==
    LET j == JsonLoads(a)
    IN  IF j.ok THEN j.v
        ELSE IF HasRows(res) THEN res.rows[1]
        ELSE PyDict(<<>>)

ParseListFirstRow(a, res) ==
    LET j == JsonLoads(a)
    IN  IF j.ok THEN j.v
        ELSE IF HasRows(res) THEN PyList(<<res.rows[1]>>)
        ELSE PyList(<<>>)

\* format_hint.startswith('list')
ParseList(a, res) ==
    LET j == JsonLoads(a)
    IN  IF j.ok THEN j.v
        ELSE IF HasRows(res) THEN PyList(res.rows)
        ELSE PyList(<<>>)

\* the text _parse_answer works on: stripped, code fences removed
CleanAnswer(answer_str) == RemoveFences(Strip(answer_str))

\* _parse_answer(answer_str, format_hint, sql_results)
ParseAnswer(answer_str, hint, res) ==
    LET a == CleanAnswer(answer_str)
    IN  IF hint = HintInt THEN ParseInt(a)
        ELSE IF hint = HintFloat THEN ParseFloat(a, hint, res)
        ELSE IF hint \in ObjectHints THEN ParseObject(a, res)
        ELSE IF hint \in ListHints THEN ParseList(a, res)
        ELSE PyStr(a)

(***************************************************************************)
(* _calculate_confidence.  Confidences are counted in units of 1/1200, so  *)
(* that every term of the sum and the final halving are exact.             *)
(***************************************************************************)
ConfOne == 12 * 100

\* a finite confidence of v units, and the float nan
Finite(v) == [nan |-> FALSE, v |-> v]
NaN == [nan |-> TRUE, v |-> 0]

\* the synthesizer's self-reported confidence texts
ConfTexts == {"0.0", "0.5", "0.9", "1.0", "1.5", "-0.3", "nan", "inf", "-inf", "high", ""}

\* float(text): a number in hundredths, nan, an infinity, or ValueError
FloatOfConfText(text) ==
    CASE text = "0.0" -> [kind |-> "num", h |-> 0]
      [] text = "0.5" -> [kind |-> "num", h |-> 50]
      [] text = "0.9" -> [kind |-> "num", h |-> 90]
      [] text = "1.0" -> [kind |-> "num", h |-> 100]
      [] text = "1.5" -> [kind |-> "num", h |-> 150]
      [] text = "-0.3" -> [kind |-> "num", h |-> -30]
      [] text = "nan" -> [kind |-> "nan", h |-> 0]
      [] text = "inf" -> [kind |-> "inf", h |-> 0]
      [] text = "-inf" -> [kind |-> "-inf", h |-> 0]
      [] OTHER -> [kind |-> "error", h |-> 0]

\* retrieval scores, in tenths
RECURSIVE SumScores(_)
SumScores(chunks) ==
    IF chunks = <<>> THEN 0 ELSE Head(chunks).score + SumScores(Tail(chunks))

HeuristicConfidenceSameBonus(res, chunks, rc) ==
    (ConfOne \div 2)
    + (IF res.present /\ res.success THEN (ConfOne \div 5) + (ConfOne \div 10) ELSE 0)
    + (IF chunks # <<>>
       THEN (SumScores(chunks) * (ConfOne \div 50)) \div Max2(1, Len(chunks))
       ELSE 0)
    + (IF rc = 0 THEN ConfOne \div 10 ELSE 0 - (ConfOne \div 20) * rc)

\* the sum of the signals, before the self-reported confidence is averaged in
HeuristicConfidence(res, chunks, rc) ==
    (ConfOne \div 2)
    + (IF res.present /\ res.success
       THEN (ConfOne \div 5) + (IF res.rows # <<>> THEN ConfOne \div 10 ELSE 0)
       ELSE 0)
    + (IF chunks # <<>>
       THEN (SumScores(chunks) * (ConfOne \div 50)) \div Max2(1, Len(chunks))
       ELSE 0)
    + (IF rc = 0 THEN ConfOne \div 10 ELSE 0 - (ConfOne \div 20) * rc)

\* min(max(c, 0.0), 1.0): both comparisons with nan are false, so nan passes through
Clamp(c) == IF c.nan THEN NaN ELSE Finite(Min2(Max2(c.v, 0), ConfOne))

\* _calculate_confidence(state, synth_result)
CalculateConfidence(res, chunks, rc, conf_text) ==
    LET h == HeuristicConfidence(res, chunks, rc)
        f == FloatOfConfText(conf_text)
    IN  CASE f.kind = "num" -> Clamp(Finite((h + f.h * (ConfOne \div 100)) \div 2))
          [] f.kind = "nan" -> Clamp(NaN)
          \* (h + inf) / 2 is inf and clamps to 1.0; (h - inf) / 2 clamps to 0.0
          [] f.kind = "inf" -> Finite(ConfOne)
          [] f.kind = "-inf" -> Finite(0)
          [] OTHER -> Clamp(Finite(h))

(***************************************************************************)
(* Questions.  A question is the set of the phrases its text contains;     *)
(* Lower gives the phrases its lowercased copy contains.                   *)
(***************************************************************************)
LowerPhrase(p) ==
    CASE p = "Policy" -> "policy"
      [] p = "AOV" -> "aov"
      [] p = "Which Category" -> "which category"
      [] OTHER -> p

Lower(q) == {LowerPhrase(p) : p \in q}

Questions ==
    { {"Policy"},
      {"summer", "how many"},
      {"top 3", "Which Category"},
      {"AOV", "during"},
      {"revenue", "margin"},
      {"Policy", "summer", "top 3"},
      {"during", "how many", "Which Category"} }

(***************************************************************************)
(* QuestionRouter.forward                                                  *)
(***************************************************************************)
RagWords == {"policy", "return window", "return days", "definition"}
HybridWords == {"during", "summer", "winter", "calendar", "marketing"}
SqlWords == {"top 3", "total revenue", "all-time", "how many"}
Routes == {"rag", "sql", "hybrid"}

\* the classification call raised instead of answering
Raised == "<raised>"

\* the texts the model answers the classification prompt with
RouteTexts == {"rag", " SQL\n", "Hybrid", "both", ""}

\* result.route.strip().lower()
NormalizeRouteText(text) ==
    CASE text = " SQL\n" -> "sql"
      [] text = "Hybrid" -> "hybrid"
      [] OTHER -> text

RouteOfTextUnchecked(text) == NormalizeRouteText(text)

\* the route of a model answer: hybrid unless it is one of the three routes
RouteOfText(text) ==
    IF NormalizeRouteText(text) \in Routes THEN NormalizeRouteText(text) ELSE "hybrid"

RouterOutcomesCaseSensitive(q) ==
    IF q \cap RagWords # {}
    THEN {[route |-> "rag", called |-> FALSE, answer |-> None]}
    ELSE IF q \cap HybridWords # {}
    THEN {[route |-> "hybrid", called |-> FALSE, answer |-> None]}
    ELSE IF q \cap SqlWords # {}
    THEN {[route |-> "sql", called |-> FALSE, answer |-> None]}
    ELSE {[route |-> RouteOfText(text), called |-> TRUE, answer |-> text] :
             text \in RouteTexts}
         \cup {[route |-> "hybrid", called |-> TRUE, answer |-> Raised]}

RouterOutcomesSqlFirst(q) ==
    IF Lower(q) \cap SqlWords # {}
    THEN {[route |-> "sql", called |-> FALSE, answer |-> None]}
    ELSE IF Lower(q) \cap RagWords # {}
    THEN {[route |-> "rag", called |-> FALSE, answer |-> None]}
    ELSE IF Lower(q) \cap HybridWords # {}
    THEN {[route |-> "hybrid", called |-> FALSE, answer |-> None]}
    ELSE {[route |-> "hybrid", called |-> TRUE, answer |-> Raised]}

\* what forward can return, and whether it called the model: a lexical rule,
\* the model's answer, or hybrid when the call raises
RouterOutcomes(q) ==
    LET q_lower == Lower(q)
    IN  IF q_lower \cap RagWords # {}
        THEN {[route |-> "rag", called |-> FALSE, answer |-> None]}
        ELSE IF q_lower \cap HybridWords # {}
        THEN {[route |-> "hybrid", called |-> FALSE, answer |-> None]}
        ELSE IF q_lower \cap SqlWords # {}
        THEN {[route |-> "sql", called |-> FALSE, answer |-> None]}
        ELSE {[route |-> RouteOfText(text), called |-> TRUE, answer |-> text] :
                 text \in RouteTexts}
             \cup {[route |-> "hybrid", called |-> TRUE, answer |-> Raised]}

(***************************************************************************)
(* The document index and DocumentRetriever.search                         *)
(***************************************************************************)
TopK == 3

\* the chunks of the index: id, and what the content mentions
DocIndex ==
    << [id |-> "marketing_calendar.md::chunk1",
        dates |-> << <<"1997-06-01", "1997-06-30">>, <<"1997-12-01", "1997-12-31">> >>,
        mentions |-> {"Beverages", "Condiments", "margin"}],
       [id |-> "kpi_definitions.md::chunk1",
        dates |-> << <<"1997-01-01", "1997-12-31">> >>,
        mentions |-> {"AOV", "Gross Margin", "Dairy Products"}] >>

\* relevance scores, in tenths
Scores == {0, 10}

\* search(query, top_k): the top_k chunks (all of them when the index holds
\* fewer), best first, each with its score
SearchResults ==
    LET n == Min2(TopK, Len(DocIndex))
    IN  { r \in [1..n -> [idx : 1..Len(DocIndex), score : Scores]] :
            /\ \A i, j \in 1..n : i < j => (r[i].idx # r[j].idx /\ r[i].score >= r[j].score) }

\* the chunk dicts search returns
ChunksOf(r) ==
    [i \in 1..Len(r) |->
        [id |-> DocIndex[r[i].idx].id, dates |-> DocIndex[r[i].idx].dates,
         mentions |-> DocIndex[r[i].idx].mentions, score |-> r[i].score]]

(***************************************************************************)
(* _extract_constraints                                                    *)
(***************************************************************************)
Categories ==
    <<"Beverages", "Condiments", "Confections", "Dairy Products",
      "Grains/Cereals", "Meat/Poultry", "Produce", "Seafood">>

AskingPhrases ==
    {"which category", "which product category", "what category",
     "top category", "highest category", "best category"}

AskingAboutCategoryCaseSensitive(q) == q \cap AskingPhrases # {}

AskingAboutCategory(q) == Lower(q) \cap AskingPhrases # {}

RECURSIVE FirstCategory(_, _)
\* the first category of the list, from position i on, that the content mentions
FirstCategory(mentions, i) ==
    IF i > Len(Categories) THEN None
    ELSE IF Categories[i] \in mentions THEN Categories[i]
    ELSE FirstCategory(mentions, i + 1)

KpiFormula == "SUM(UnitPrice * Quantity * (1 - Discount)) / COUNT(DISTINCT OrderID)"

\* one pass of the loop body, for one chunk
ExtractFromChunk(q, chunk, c0) ==
    LET c1 == IF chunk.dates # <<>> THEN DictSet(c0, "date_range", chunk.dates[1]) ELSE c0
        c2 == IF ~AskingAboutCategory(q) /\ FirstCategory(chunk.mentions, 1) # None
              THEN DictSet(c1, "category", FirstCategory(chunk.mentions, 1))
              ELSE c1
        c3 == IF q \cap {"AOV", "Average Order Value"} # {} /\ "AOV" \in chunk.mentions
              THEN DictSet(DictSet(c2, "kpi_type", "AOV"), "kpi_formula", KpiFormula)
              ELSE c2
        c4 == IF Lower(q) \cap {"gross margin", "margin"} # {}
                 /\ chunk.mentions \cap {"Gross Margin", "margin"} # {}
              THEN DictSet(DictSet(c3, "kpi_type", "gross_margin"),
                           "cost_approximation", PyFloat(700))
              ELSE c3
    IN  c4

RECURSIVE ExtractLoop(_, _, _, _)
ExtractLoop(q, chunks, i, c) ==
    IF i > Len(chunks) THEN c
    ELSE ExtractLoop(q, chunks, i + 1, ExtractFromChunk(q, chunks[i], c))

ExtractConstraintsFromQuestion(q, chunks) ==
    ExtractLoop(q, chunks, 1,
                IF Lower(q) \cap {"gross margin", "margin"} # {}
                THEN DictSet(EmptyDict, "kpi_type", "gross_margin")
                ELSE EmptyDict)

\* _extract_constraints(question, chunks)
ExtractConstraints(q, chunks) == ExtractLoop(q, chunks, 1, EmptyDict)

(***************************************************************************)
(* Query texts: a text is a sequence of lines, a line a sequence of        *)
(* tokens.  NL2SQLModule.forward's cleaning of the model's output.         *)
(***************************************************************************)
FenceSql == "FENCE_SQL"
BlankLine == <<>>
CommentLine == <<"--", "note">>

\* the placeholder query, 'SELECT 1;'
Select1 == << <<"SELECT", "1;">> >>

QOrders == << <<"SELECT", "COUNT(*)", "FROM", "Orders">> >>
QJoin ==
    << <<"SELECT", "SUM(od.Quantity)", "FROM", "\"Order Details\"", "od">>,
       <<"JOIN", "Orders", "o", "ON", "od.OrderID", "=", "o.OrderID">> >>

\* what the model answers the generation prompt with
RawSqlTexts ==
    { QOrders,
      << <<FenceSql>> >> \o QJoin \o << <<Fence>> >>,
      << CommentLine, QOrders[1] >>,
      << CommentLine >>,
      << <<FenceSql>>, BlankLine, QOrders[1] >> }

RECURSIVE StripBlankHead(_)
StripBlankHead(lines) ==
    IF lines # <<>> /\ Head(lines) = BlankLine THEN StripBlankHead(Tail(lines)) ELSE lines

RECURSIVE StripBlankTail(_)
StripBlankTail(lines) ==
    IF lines # <<>> /\ lines[Len(lines)] = BlankLine
    THEN StripBlankTail(SubSeq(lines, 1, Len(lines) - 1))
    ELSE lines

\* str.strip() of a text, line by line
StripLines(lines) == StripBlankTail(StripBlankHead(lines))

\* .replace of the two fence markers by nothing, in every line
DropFences(lines) ==
    [i \in 1..Len(lines) |-> Without(Without(lines[i], FenceSql), Fence)]

RECURSIVE FirstInteriorBlank(_, _)
\* the first blank line that has a line before and a line after it, 0 when none
FirstInteriorBlank(lines, i) ==
    IF i >= Len(lines) THEN 0
    ELSE IF lines[i] = BlankLine THEN i
    ELSE FirstInteriorBlank(lines, i + 1)

\* sql.split('\n\n')[0]
FirstParagraph(lines) ==
    LET b == FirstInteriorBlank(lines, 2)
    IN  IF b = 0 THEN lines ELSE SubSeq(lines, 1, b - 1)

RECURSIVE DropComments(_)
DropComments(lines) ==
    IF lines = <<>> THEN <<>>
    ELSE IF Head(lines) # <<>> /\ Head(Head(lines)) = "--" THEN DropComments(Tail(lines))
    ELSE <<Head(lines)>> \o DropComments(Tail(lines))

\* the cleaning of result.sql in NL2SQLModule.forward
CleanSql(raw) == StripLines(DropComments(FirstParagraph(DropFences(StripLines(raw)))))

\* what forward returns as .sql: the cleaned output, or the placeholder when the call raises
Nl2SqlOutcomes == {CleanSql(raw) : raw \in RawSqlTexts} \cup {Select1}

(***************************************************************************)
(* execute_sql: the results the relational engine can give.                *)
(***************************************************************************)
RowOne == PyDict(<< <<"1", PyInt(1)>> >>)
RowBeverages ==
    PyDict(<< <<"category", PyStr(<<"a">>)>>, <<"note", PyNone>>, <<"total", PyFloat(15237)>> >>)
RowCount == PyDict(<< <<"n", PyInt(7)>> >>)
RowName == PyDict(<< <<"name", PyStr(<<"a">>)>> >>)
\* a row with a BLOB column, which sqlite3 returns as bytes
RowPicture == PyDict(<< <<"CategoryID", PyInt(1)>>, <<"Picture", PyBytes>> >>)

RowSets ==
    { <<>>, <<RowBeverages, RowCount>>, <<RowCount, RowBeverages>>, <<RowName>>, <<RowPicture>> }

\* the error texts of a failed execution: the engine's message and the hints
ErrorTexts ==
    { "no such column: o.OrderDate | Column 'o.OrderDate' does not exist",
      "near \"SELEC\": syntax error" }

\* execute_sql(query) for a non-empty query: the placeholder selects one row
ExecOutcomes(query) ==
    IF query = Select1 THEN {ExecSuccess(<<RowOne>>)}
    ELSE {ExecSuccess(rows) : rows \in RowSets} \cup {ExecFailure(e) : e \in ErrorTexts}

(***************************************************************************)
(* extract_tables_from_sql and _collect_citations                          *)
(***************************************************************************)
RECURSIVE Flatten(_)
Flatten(lines) == IF lines = <<>> THEN <<>> ELSE Head(lines) \o Flatten(Tail(lines))

TableIntroducers == {"FROM", "JOIN", "INTO", "UPDATE", "TABLE"}

SqlKeywords ==
    {"SELECT", "WHERE", "GROUP", "ORDER", "HAVING", "LIMIT", "OFFSET", "UNION",
     "INTERSECT", "EXCEPT", "CASE", "WHEN", "THEN", "ELSE", "END", "AS", "ON",
     "USING", "AND", "OR", "NOT", "IN", "EXISTS", "BETWEEN", "LIKE", "IS", "NULL",
     "DISTINCT", "ALL", "ASC", "DESC"}

\* the name the pattern takes from the token after an introducer: a quoted
\* name is cut at its first blank by split()[0]
TableOfToken(tok) == IF tok = "\"Order Details\"" THEN "Order" ELSE tok

\* word.upper(), for the names the pattern can take
UpperName(name) ==
    CASE name = "Order" -> "ORDER"
      [] name = "Orders" -> "ORDERS"
      [] OTHER -> name

\* _is_sql_keyword(word)
IsSqlKeyword(word) == UpperName(word) \in SqlKeywords

\* extract_tables_from_sql(sql), as a set
ExtractTables(sql) ==
    LET toks == Flatten(sql)
    IN  { TableOfToken(toks[i + 1]) :
            i \in { j \in 1..(Len(toks) - 1) :
                      /\ toks[j] \in TableIntroducers
                      /\ ~IsSqlKeyword(TableOfToken(toks[j + 1])) } }

CollectCitationsFirstChunk(sql, chunks) ==
    (IF sql # <<>> THEN ExtractTables(sql) ELSE {})
    \cup (IF chunks # <<>> THEN {chunks[1].id} ELSE {})

\* _collect_citations(state), as a set
CollectCitations(sql, chunks) ==
    (IF sql # <<>> THEN ExtractTables(sql) ELSE {})
    \cup {chunks[i].id : i \in 1..Len(chunks)}

(***************************************************************************)
(* SynthesizerModule.forward                                               *)
(***************************************************************************)
RECURSIVE HasBytes(_)
\* whether json.dumps meets a bytes value in the rows, and raises TypeError
HasBytes(rows) ==
    IF rows = <<>> THEN FALSE
    ELSE (\E i \in 1..Len(Head(rows).pairs) : Head(rows).pairs[i][2].t = "bytes")
         \/ HasBytes(Tail(rows))

\* _format_sql_results raises: it dumps the rows of a successful result as JSON
FormatSqlResultsRaises(res) == res.present /\ res.success /\ HasBytes(res.rows)

\* the raw answers the model gives in a run
RawAnswers ==
    { <<"7">>, <<"a", " ", "7", "7">>, <<"a">>, <<".">>, <<"7", ".", "0", "7", "7">>,
      <<"null">>, <<"[", "7", "]">>, <<"{", "}">>,
      <<Fence, "json", "\n", "[", "]", "\n", Fence>> }

\* the self-reported confidences the model gives in a run
RunConfTexts == {"0.9", "nan", "high", "-0.3", "1.5"}

Prediction(a, c) == [answer |-> a, explanation |-> "explanation", confidence |-> c]

\* the predictions the model gives in a run: each raw answer, each confidence
RunPredictions ==
    {Prediction(a, "0.9") : a \in RawAnswers}
    \cup {Prediction(<<"7">>, c) : c \in RunConfTexts}

\* every raw answer over the alphabet, up to MaxLen characters
AllRawAnswers == SeqsUpTo(Alphabet, MaxLen) \cup RawAnswers

ParsePredictions == {Prediction(a, "0.9") : a \in AllRawAnswers}

\* the fallback forward returns when the model call raises
SynthFallback == [answer |-> <<"0">>, explanation |-> "Error during synthesis", confidence |-> "0.0"]

\* what forward returns: the model's prediction, or the fallback
SynthOutcomes(predictions) == predictions \cup {SynthFallback}

(***************************************************************************)
(* The graph: conditional edges, nodes, run.                               *)
(***************************************************************************)
RouteAfterRouterRetriever(r) == "retriever"

ShouldRepairNever(err, rc, mr) == "synthesizer"

ShouldRepairRegenerate(err, rc, mr) ==
    IF err # None /\ rc < mr THEN "nl2sql" ELSE "synthesizer"

ShouldRepairUnmapped(err, rc, mr) ==
    IF err # None /\ rc < mr THEN "repair" ELSE "synthesize"

ShouldRepairAtBound(err, rc, mr) ==
    IF err # None /\ rc <= mr THEN "repair" ELSE "synthesizer"

\* should_repair, with the node each answer leads to
ShouldRepair(err, rc, mr) ==
    IF err # None /\ rc < mr THEN "repair" ELSE "synthesizer"

\* route_after_router
RouteAfterRouter(r) == IF r \in {"rag", "hybrid"} THEN "retriever" ELSE "planner"

\* no batch is being driven: run is called directly
NoBatch == [questions |-> <<>>, pos |-> 0, results |-> <<>>, raised |-> {}]

NoSynthResult == [answer |-> <<>>, explanation |-> "", confidence |-> ""]

\* the state run builds, for a question, a format hint and a max_repairs
InitialState(MaxRepairsValues) ==
    /\ pc = "router"
    /\ question \in Questions
    /\ format_hint \in FormatHints
    /\ max_repairs \in MaxRepairsValues
    /\ route = ""
    /\ retrieved_chunks = <<>>
    /\ constraints = EmptyDict
    /\ sql_query = <<>>
    /\ sql_results = NoResults
    /\ sql_error = None
    /\ final_answer = PyNone
    /\ explanation = ""
    /\ confidence = Finite(0)
    /\ citations = {}
    /\ repair_count = 0
    /\ nl2sql_calls = 0
    /\ router_called_model = FALSE
    /\ synth_result = NoSynthResult
    /\ router_answer = None
    /\ search_calls = 0
    /\ docs_dir = "present"
    /\ error_feedback = None
    /\ executed_query = <<>>
    /\ trace = <<>>
    /\ runs = <<>>
    /\ batch = NoBatch

Init == InitialState(0..MaxRepairsBound)

RouterNode ==
    /\ pc = "router"
    /\ \E o \in RouterOutcomes(question) :
          /\ route' = o.route
          /\ router_called_model' = o.called
          /\ router_answer' = o.answer
          /\ pc' = RouteAfterRouter(o.route)
    /\ trace' = Append(trace, "router")
    /\ UNCHANGED <<error_feedback, executed_query, runs, batch,
                   search_calls, docs_dir,
                   question, format_hint, retrieved_chunks, constraints, sql_query,
                   sql_results, sql_error, final_answer, explanation, confidence,
                   citations, repair_count, max_repairs, nl2sql_calls, synth_result>>

RetrieverNode ==
    /\ pc = "retriever"
    /\ IF route \in {"rag", "hybrid"}
       THEN /\ \E r \in SearchResults : retrieved_chunks' = ChunksOf(r)
            /\ search_calls' = search_calls + 1
       ELSE UNCHANGED <<retrieved_chunks, search_calls>>
    /\ pc' = "planner"
    /\ trace' = Append(trace, "retriever")
    /\ UNCHANGED <<error_feedback, executed_query, runs, batch,
                   router_answer, docs_dir,
                   question, format_hint, route, constraints, sql_query, sql_results,
                   sql_error, final_answer, explanation, confidence, citations,
                   repair_count, max_repairs, nl2sql_calls, router_called_model,
                   synth_result>>

PlannerNodeRerouting ==
    /\ pc = "planner"
    /\ constraints' = IF route \in {"sql", "hybrid"}
                      THEN ExtractConstraints(question, retrieved_chunks)
                      ELSE constraints
    /\ route' = IF route = "hybrid" /\ "category" \notin DOMAIN constraints' THEN "sql" ELSE route
    /\ pc' = "nl2sql"
    /\ trace' = Append(trace, "planner")
    /\ UNCHANGED <<error_feedback, executed_query, runs, batch,
                   router_answer, search_calls, docs_dir,
                   question, format_hint, retrieved_chunks, sql_query,
                   sql_results, sql_error, final_answer, explanation, confidence,
                   citations, repair_count, max_repairs, nl2sql_calls,
                   router_called_model, synth_result>>

\* planner_node
PlannerNode ==
    /\ pc = "planner"
    /\ constraints' = IF route \in {"sql", "hybrid"}
                      THEN ExtractConstraints(question, retrieved_chunks)
                      ELSE constraints
    /\ pc' = "nl2sql"
    /\ trace' = Append(trace, "planner")
    /\ UNCHANGED <<error_feedback, executed_query, runs, batch,
                   router_answer, search_calls, docs_dir,
                   question, format_hint, route, retrieved_chunks, sql_query,
                   sql_results, sql_error, final_answer, explanation, confidence,
                   citations, repair_count, max_repairs, nl2sql_calls,
                   router_called_model, synth_result>>

Nl2SqlNodeNoFeedback ==
    /\ pc = "nl2sql"
    /\ IF route \in {"sql", "hybrid"}
       THEN /\ \E q \in Nl2SqlOutcomes : sql_query' = q
            /\ nl2sql_calls' = nl2sql_calls + 1
            /\ error_feedback' = None
       ELSE UNCHANGED <<sql_query, nl2sql_calls, error_feedback>>
    /\ pc' = "executor"
    /\ trace' = Append(trace, "nl2sql")
    /\ UNCHANGED <<executed_query, runs, batch,
                   router_answer, search_calls, docs_dir,
                   question, format_hint, route, retrieved_chunks, constraints,
                   sql_results, sql_error, final_answer, explanation, confidence,
                   citations, repair_count, max_repairs, router_called_model,
                   synth_result>>

Nl2SqlNodeUnguarded ==
    /\ pc = "nl2sql"
    /\ \E q \in Nl2SqlOutcomes : sql_query' = q
    /\ nl2sql_calls' = nl2sql_calls + 1
    /\ error_feedback' = IF repair_count > 0 THEN sql_error ELSE None
    /\ pc' = "executor"
    /\ trace' = Append(trace, "nl2sql")
    /\ UNCHANGED <<executed_query, runs, batch,
                   router_answer, search_calls, docs_dir,
                   question, format_hint, route, retrieved_chunks, constraints,
                   sql_results, sql_error, final_answer, explanation, confidence,
                   citations, repair_count, max_repairs, router_called_model,
                   synth_result>>

\* nl2sql_node
Nl2SqlNode ==
    /\ pc = "nl2sql"
    /\ IF route \in {"sql", "hybrid"}
       THEN /\ \E q \in Nl2SqlOutcomes : sql_query' = q
            /\ nl2sql_calls' = nl2sql_calls + 1
            /\ error_feedback' = IF repair_count > 0 THEN sql_error ELSE None
       ELSE UNCHANGED <<sql_query, nl2sql_calls, error_feedback>>
    /\ pc' = "executor"
    /\ trace' = Append(trace, "nl2sql")
    /\ UNCHANGED <<executed_query, runs, batch,
                   router_answer, search_calls, docs_dir,
                   question, format_hint, route, retrieved_chunks, constraints,
                   sql_results, sql_error, final_answer, explanation, confidence,
                   citations, repair_count, max_repairs, router_called_model,
                   synth_result>>

ExecutorNode ==
    /\ pc = "executor"
    /\ IF sql_query # <<>>
       THEN \E res \in ExecOutcomes(sql_query) :
               /\ sql_results' = res
               /\ sql_error' = res.error
               /\ executed_query' = sql_query
       ELSE UNCHANGED <<sql_results, sql_error, executed_query>>
    /\ pc' = ShouldRepair(sql_error', repair_count, max_repairs)
    /\ trace' = Append(trace, "executor")
    /\ UNCHANGED <<error_feedback, runs, batch,
                   router_answer, search_calls, docs_dir,
                   question, format_hint, route, retrieved_chunks, constraints,
                   sql_query, final_answer, explanation, confidence, citations,
                   repair_count, max_repairs, nl2sql_calls, router_called_model,
                   synth_result>>

RepairNodeNoIncrement ==
    /\ pc = "repair"
    /\ pc' = "nl2sql"
    /\ trace' = Append(trace, "repair")
    /\ UNCHANGED <<error_feedback, executed_query, runs, batch,
                   router_answer, search_calls, docs_dir,
                   question, format_hint, route, retrieved_chunks, constraints,
                   sql_query, sql_results, sql_error, final_answer, explanation,
                   confidence, citations, repair_count, max_repairs, nl2sql_calls,
                   router_called_model, synth_result>>

\* repair_node
RepairNode ==
    /\ pc = "repair"
    /\ repair_count' = repair_count + 1
    /\ pc' = "nl2sql"
    /\ trace' = Append(trace, "repair")
    /\ UNCHANGED <<error_feedback, executed_query, runs, batch,
                   router_answer, search_calls, docs_dir,
                   question, format_hint, route, retrieved_chunks, constraints,
                   sql_query, sql_results, sql_error, final_answer, explanation,
                   confidence, citations, max_repairs, nl2sql_calls,
                   router_called_model, synth_result>>

\* synthesizer_node, the model answering from the given texts; the run raises
\* when the synthesizer cannot render the rows
SynthesizerNodeWith(predictions) ==
    /\ pc = "synthesizer"
    /\ IF FormatSqlResultsRaises(sql_results)
       THEN /\ pc' = "RAISED"
            /\ UNCHANGED <<final_answer, explanation, confidence, citations, synth_result>>
       ELSE \E r \in SynthOutcomes(predictions) :
               /\ synth_result' = r
               /\ final_answer' = ParseAnswer(r.answer, format_hint, sql_results)
               /\ citations' = CollectCitations(sql_query, retrieved_chunks)
               /\ confidence' = CalculateConfidence(sql_results, retrieved_chunks,
                                                    repair_count, r.confidence)
               /\ explanation' = r.explanation
               /\ pc' = "END"
    /\ trace' = Append(trace, "synthesizer")
    /\ UNCHANGED <<error_feedback, executed_query, runs, batch,
                   router_answer, search_calls, docs_dir,
                   question, format_hint, route, retrieved_chunks, constraints,
                   sql_query, sql_results, sql_error, repair_count, max_repairs,
                   nl2sql_calls, router_called_model>>

SynthesizerNode == SynthesizerNodeWith(RunPredictions)

Next ==
    \/ RouterNode
    \/ RetrieverNode
    \/ PlannerNode
    \/ Nl2SqlNode
    \/ ExecutorNode
    \/ RepairNode
    \/ SynthesizerNode

\* one call of run, max_repairs >= 0
Spec == Init /\ [][Next]_vars

\* one call of run with any max_repairs, negative ones too
AnyIntInit == InitialState((-1)..MaxRepairsBound)

AnyIntSpec == AnyIntInit /\ [][Next]_vars

\* one call of run for an int answer, the model answering the synthesizer
\* with one prediction or failing
LiveInit == InitialState(0..MaxRepairsBound) /\ format_hint = HintInt

LivePredictions == {Prediction(<<"7">>, "0.9")}

LiveNext ==
    \/ RouterNode
    \/ RetrieverNode
    \/ PlannerNode
    \/ Nl2SqlNode
    \/ ExecutorNode
    \/ RepairNode
    \/ SynthesizerNodeWith(LivePredictions)

\* run is a single thread of control: a node that can run does run
FairSpec == LiveInit /\ [][LiveNext]_vars /\ WF_vars(LiveNext)

(***************************************************************************)
(* The batch driver builds the agent before the first run.  HybridAgent's  *)
(* constructor builds the DocumentRetriever, which lists the documents     *)
(* directory (os.listdir raises when it is missing) and fits the TF-IDF    *)
(* index on its chunks (fit_transform raises on an empty collection);      *)
(* neither constructor catches anything.                                   *)
(***************************************************************************)
DocsDirStates == {"present", "missing", "empty"}

\* HybridAgent.__init__
Construct ==
    /\ pc = "construct"
    /\ pc' = IF docs_dir = "present" THEN "router" ELSE "RAISED"
    /\ UNCHANGED <<error_feedback, executed_query, trace, runs, batch,
                   router_answer, search_calls, docs_dir,
                   question, format_hint, route, retrieved_chunks, constraints,
                   sql_query, sql_results, sql_error, final_answer, explanation,
                   confidence, citations, repair_count, max_repairs, nl2sql_calls,
                   router_called_model, synth_result>>

\* the driver is about to build the agent and run one question with it
ColdInit ==
    /\ pc = "construct"
    /\ docs_dir \in DocsDirStates
    /\ question \in Questions
    /\ format_hint = HintInt
    /\ max_repairs \in 0..MaxRepairsBound
    /\ route = ""
    /\ retrieved_chunks = <<>>
    /\ constraints = EmptyDict
    /\ sql_query = <<>>
    /\ sql_results = NoResults
    /\ sql_error = None
    /\ final_answer = PyNone
    /\ explanation = ""
    /\ confidence = Finite(0)
    /\ citations = {}
    /\ repair_count = 0
    /\ nl2sql_calls = 0
    /\ router_called_model = FALSE
    /\ synth_result = NoSynthResult
    /\ router_answer = None
    /\ search_calls = 0
    /\ error_feedback = None
    /\ executed_query = <<>>
    /\ trace = <<>>
    /\ runs = <<>>
    /\ batch = NoBatch

ColdNext ==
    \/ Construct
    \/ RouterNode
    \/ RetrieverNode
    \/ PlannerNode
    \/ Nl2SqlNode
    \/ ExecutorNode
    \/ RepairNode
    \/ SynthesizerNodeWith(LivePredictions)

ColdSpec == ColdInit /\ [][ColdNext]_vars

(***************************************************************************)
(* The batch driver, run_agent_hybrid.main: one agent, the questions of    *)
(* the input file in order, each run with max_repairs = 2 inside a try;    *)
(* the results list is written out at the end.  The run in progress is     *)
(* the one the AgentState variables describe.                              *)
(***************************************************************************)
\* a closing markup tag, one lexeme: console.print raises MarkupError on a
\* text that holds a closing tag with no opening tag before it
ClosingTag == "[/INST]"

\* the lines of the input file: question and format hint
BatchItems ==
    { [question |-> {"Policy"}, format_hint |-> HintInt],
      [question |-> {"top 3", "Which Category"}, format_hint |-> HintFloat] }

BatchLen == 2

\* what the model answers the synthesizer with during a batch
BatchPredictions ==
    { Prediction(<<"7">>, "0.9"), Prediction(<<"a", ".", ClosingTag>>, "0.9") }

\* the record built from a run's result (lines 80-87)
OutputRecord(id) ==
    [id |-> id, final_answer |-> final_answer, sql |-> sql_query,
     confidence |-> confidence, citations |-> citations]

\* the record of the except branch (lines 98-105)
ErrorRecord(id) ==
    [id |-> id, final_answer |-> PyNone, sql |-> <<>>,
     confidence |-> Finite(0), citations |-> {}]

\* console.print(f"Answer: {output['final_answer']}") raises (line 92)
PrintRaises(answer) ==
    answer.t = "str" /\ \E i \in 1..Len(answer.s) : answer.s[i] = ClosingTag

\* the AgentState run builds for line pos of the batch
StartRun(pos) ==
    /\ pc' = "router"
    /\ question' = batch.questions[pos].question
    /\ format_hint' = batch.questions[pos].format_hint
    /\ max_repairs' = 2
    /\ route' = ""
    /\ retrieved_chunks' = <<>>
    /\ constraints' = EmptyDict
    /\ sql_query' = <<>>
    /\ sql_results' = NoResults
    /\ sql_error' = None
    /\ final_answer' = PyNone
    /\ explanation' = ""
    /\ confidence' = Finite(0)
    /\ citations' = {}
    /\ repair_count' = 0
    /\ nl2sql_calls' = 0
    /\ router_called_model' = FALSE
    /\ synth_result' = NoSynthResult
    /\ router_answer' = None
    /\ search_calls' = 0
    /\ error_feedback' = None
    /\ executed_query' = <<>>
    /\ trace' = <<>>

\* the end of one iteration of the loop: the next question's run starts, or
\* the results are written
NextIteration(results, raised) ==
    IF batch.pos < Len(batch.questions)
    THEN /\ batch' = [batch EXCEPT !.pos = batch.pos + 1, !.results = results,
                                   !.raised = raised]
         /\ StartRun(batch.pos + 1)
    ELSE /\ batch' = [batch EXCEPT !.results = results, !.raised = raised]
         /\ pc' = "written"
         /\ UNCHANGED <<question, format_hint, max_repairs, route, retrieved_chunks,
                        constraints, sql_query, sql_results, sql_error, final_answer,
                        explanation, confidence, citations, repair_count, nl2sql_calls,
                        router_called_model, synth_result, router_answer, search_calls,
                        error_feedback, executed_query, trace>>

\* agent.run returned: the try body appends the record, then prints it; a
\* print that raises lands in the except branch, which appends its own record
DriverReturned ==
    /\ pc = "END"
    /\ batch.pos > 0
    /\ NextIteration(
          IF PrintRaises(final_answer)
          THEN batch.results \o <<OutputRecord(batch.pos), ErrorRecord(batch.pos)>>
          ELSE Append(batch.results, OutputRecord(batch.pos)),
          batch.raised)
    /\ UNCHANGED <<docs_dir, runs>>

\* agent.run raised: the except branch appends the null record
DriverCaught ==
    /\ pc = "RAISED"
    /\ batch.pos > 0
    /\ NextIteration(Append(batch.results, ErrorRecord(batch.pos)),
                     batch.raised \cup {batch.pos})
    /\ UNCHANGED <<docs_dir, runs>>

\* the driver has built the agent and starts the run of the first line
BatchInit ==
    /\ \E qs \in [1..BatchLen -> BatchItems] :
          /\ batch = [questions |-> qs, pos |-> 1, results |-> <<>>, raised |-> {}]
          /\ question = qs[1].question
          /\ format_hint = qs[1].format_hint
    /\ pc = "router"
    /\ max_repairs = 2
    /\ route = ""
    /\ retrieved_chunks = <<>>
    /\ constraints = EmptyDict
    /\ sql_query = <<>>
    /\ sql_results = NoResults
    /\ sql_error = None
    /\ final_answer = PyNone
    /\ explanation = ""
    /\ confidence = Finite(0)
    /\ citations = {}
    /\ repair_count = 0
    /\ nl2sql_calls = 0
    /\ router_called_model = FALSE
    /\ synth_result = NoSynthResult
    /\ router_answer = None
    /\ search_calls = 0
    /\ docs_dir = "present"
    /\ error_feedback = None
    /\ executed_query = <<>>
    /\ trace = <<>>
    /\ runs = <<>>

BatchNext ==
    \/ RouterNode
    \/ RetrieverNode
    \/ PlannerNode
    \/ Nl2SqlNode
    \/ ExecutorNode
    \/ RepairNode
    \/ SynthesizerNodeWith(BatchPredictions)
    \/ DriverReturned
    \/ DriverCaught

BatchSpec == BatchInit /\ [][BatchNext]_vars

(***************************************************************************)
(* Two runs on one agent.  Each run call builds its own state dict and     *)
(* every node returns a new dict, so the AgentState variables describe the *)
(* dict of the run whose node executes and runs.parked the dict of the     *)
(* other run; what the two runs have in common is the agent, whose fields  *)
(* no node assigns, and the database file execute_sql opens.               *)
(***************************************************************************)
QDropOrders == << <<"DROP", "TABLE", "Orders">> >>

\* the tables of the database file the queries of the model name
FullDb == {"Orders"}

NoSuchTable == "no such table: Orders | Table 'Orders' does not exist"

\* what the model answers the generation prompt with in the two runs
TwoRunQueries == {QOrders, QDropOrders}

TwoRunQuestions == { {"Policy"}, {"top 3", "Which Category"} }

\* execute_sql(query) against the tables db: the result and the tables after
\* it; sqlite3 runs a DDL statement outside any transaction, so its effect
\* stays when the connection is closed without a commit
ExecuteOn(query, db) ==
    CASE query = Select1 -> [res |-> ExecSuccess(<<RowOne>>), db |-> db]
      [] query = QOrders ->
            IF "Orders" \in db THEN [res |-> ExecSuccess(<<RowCount>>), db |-> db]
            ELSE [res |-> ExecFailure(NoSuchTable), db |-> db]
      [] query = QDropOrders ->
            IF "Orders" \in db THEN [res |-> ExecSuccess(<<>>), db |-> db \ {"Orders"}]
            ELSE [res |-> ExecFailure(NoSuchTable), db |-> db]

\* the state dict run builds (lines 312-327)
FreshState(q, hint, mr) ==
    [pc |-> "router", question |-> q, format_hint |-> hint, route |-> "",
     retrieved_chunks |-> <<>>, constraints |-> EmptyDict, sql_query |-> <<>>,
     sql_results |-> NoResults, sql_error |-> None, final_answer |-> PyNone,
     explanation |-> "", confidence |-> Finite(0), citations |-> {},
     repair_count |-> 0, max_repairs |-> mr, nl2sql_calls |-> 0,
     router_called_model |-> FALSE, synth_result |-> NoSynthResult,
     router_answer |-> None, search_calls |-> 0, error_feedback |-> None,
     executed_query |-> <<>>, trace |-> <<>>]

\* the state dict of the run whose node executes
RunState ==
    [pc |-> pc,
     question |-> question,
     format_hint |-> format_hint,
     route |-> route,
     retrieved_chunks |-> retrieved_chunks,
     constraints |-> constraints,
     sql_query |-> sql_query,
     sql_results |-> sql_results,
     sql_error |-> sql_error,
     final_answer |-> final_answer,
     explanation |-> explanation,
     confidence |-> confidence,
     citations |-> citations,
     repair_count |-> repair_count,
     max_repairs |-> max_repairs,
     nl2sql_calls |-> nl2sql_calls,
     router_called_model |-> router_called_model,
     synth_result |-> synth_result,
     router_answer |-> router_answer,
     search_calls |-> search_calls,
     error_feedback |-> error_feedback,
     executed_query |-> executed_query,
     trace |-> trace]

TwoRunInit ==
    /\ \E q1 \in TwoRunQuestions, q2 \in TwoRunQuestions :
          /\ LET fresh == FreshState(q1, HintInt, 1)
             IN  /\ pc = fresh.pc
                 /\ question = fresh.question
                 /\ format_hint = fresh.format_hint
                 /\ route = fresh.route
                 /\ retrieved_chunks = fresh.retrieved_chunks
                 /\ constraints = fresh.constraints
                 /\ sql_query = fresh.sql_query
                 /\ sql_results = fresh.sql_results
                 /\ sql_error = fresh.sql_error
                 /\ final_answer = fresh.final_answer
                 /\ explanation = fresh.explanation
                 /\ confidence = fresh.confidence
                 /\ citations = fresh.citations
                 /\ repair_count = fresh.repair_count
                 /\ max_repairs = fresh.max_repairs
                 /\ nl2sql_calls = fresh.nl2sql_calls
                 /\ router_called_model = fresh.router_called_model
                 /\ synth_result = fresh.synth_result
                 /\ router_answer = fresh.router_answer
                 /\ search_calls = fresh.search_calls
                 /\ error_feedback = fresh.error_feedback
                 /\ executed_query = fresh.executed_query
                 /\ trace = fresh.trace
          /\ runs = [active |-> 1, parked |-> FreshState(q2, HintInt, 1), db |-> FullDb,
                     alone_db |-> [i \in 1..2 |-> FullDb],
                     alone_result |-> [i \in 1..2 |-> NoResults]]
    /\ docs_dir = "present"
    /\ batch = NoBatch

\* the other run's next node executes: between two nodes of one run any
\* number of nodes of the other may run, a whole run included
SwitchRun ==
    /\ runs' = [runs EXCEPT !.active = 3 - runs.active, !.parked = RunState]
    /\ pc' = runs.parked.pc
    /\ question' = runs.parked.question
    /\ format_hint' = runs.parked.format_hint
    /\ route' = runs.parked.route
    /\ retrieved_chunks' = runs.parked.retrieved_chunks
    /\ constraints' = runs.parked.constraints
    /\ sql_query' = runs.parked.sql_query
    /\ sql_results' = runs.parked.sql_results
    /\ sql_error' = runs.parked.sql_error
    /\ final_answer' = runs.parked.final_answer
    /\ explanation' = runs.parked.explanation
    /\ confidence' = runs.parked.confidence
    /\ citations' = runs.parked.citations
    /\ repair_count' = runs.parked.repair_count
    /\ max_repairs' = runs.parked.max_repairs
    /\ nl2sql_calls' = runs.parked.nl2sql_calls
    /\ router_called_model' = runs.parked.router_called_model
    /\ synth_result' = runs.parked.synth_result
    /\ router_answer' = runs.parked.router_answer
    /\ search_calls' = runs.parked.search_calls
    /\ error_feedback' = runs.parked.error_feedback
    /\ executed_query' = runs.parked.executed_query
    /\ trace' = runs.parked.trace
    /\ UNCHANGED <<docs_dir, batch>>

\* nl2sql_node, the model answering with one of the given queries
Nl2SqlNodeFrom(queries) ==
    /\ pc = "nl2sql"
    /\ IF route \in {"sql", "hybrid"}
       THEN /\ \E q \in queries : sql_query' = q
            /\ nl2sql_calls' = nl2sql_calls + 1
            /\ error_feedback' = IF repair_count > 0 THEN sql_error ELSE None
       ELSE UNCHANGED <<sql_query, nl2sql_calls, error_feedback>>
    /\ pc' = "executor"
    /\ trace' = Append(trace, "nl2sql")
    /\ UNCHANGED <<executed_query, runs, batch,
                   router_answer, search_calls, docs_dir,
                   question, format_hint, route, retrieved_chunks, constraints,
                   sql_results, sql_error, final_answer, explanation, confidence,
                   citations, repair_count, max_repairs, router_called_model,
                   synth_result>>

\* executor_node against the database file the two runs open; alone_db and
\* alone_result follow the file and the result of a run that is the only one
ExecutorNodeOnDb ==
    /\ pc = "executor"
    /\ IF sql_query # <<>>
       THEN LET shared == ExecuteOn(sql_query, runs.db)
                alone == ExecuteOn(sql_query, runs.alone_db[runs.active])
            IN  /\ sql_results' = shared.res
                /\ sql_error' = shared.res.error
                /\ executed_query' = sql_query
                /\ runs' = [runs EXCEPT !.db = shared.db,
                                        !.alone_db[runs.active] = alone.db,
                                        !.alone_result[runs.active] = alone.res]
       ELSE UNCHANGED <<sql_results, sql_error, executed_query, runs>>
    /\ pc' = ShouldRepair(sql_error', repair_count, max_repairs)
    /\ trace' = Append(trace, "executor")
    /\ UNCHANGED <<error_feedback, batch,
                   router_answer, search_calls, docs_dir,
                   question, format_hint, route, retrieved_chunks, constraints,
                   sql_query, final_answer, explanation, confidence, citations,
                   repair_count, max_repairs, nl2sql_calls, router_called_model,
                   synth_result>>

TwoRunNext ==
    \/ RouterNode
    \/ RetrieverNode
    \/ PlannerNode
    \/ Nl2SqlNodeFrom(TwoRunQueries)
    \/ ExecutorNodeOnDb
    \/ RepairNode
    \/ SynthesizerNodeWith(LivePredictions)
    \/ SwitchRun

TwoRunSpec == TwoRunInit /\ [][TwoRunNext]_vars

(***************************************************************************)
(* One call of run for the questions that name a KPI: AOV, margin, or both *)
(***************************************************************************)
KpiQuestions ==
    { {"AOV", "during"}, {"margin", "summer"}, {"AOV", "margin", "during"} }

KpiInit ==
    /\ \E q \in KpiQuestions, hint \in {HintInt, HintFloat}, mr \in 0..1 :
          LET fresh == FreshState(q, hint, mr)
          IN  /\ pc = fresh.pc
              /\ question = fresh.question
              /\ format_hint = fresh.format_hint
              /\ route = fresh.route
              /\ retrieved_chunks = fresh.retrieved_chunks
              /\ constraints = fresh.constraints
              /\ sql_query = fresh.sql_query
              /\ sql_results = fresh.sql_results
              /\ sql_error = fresh.sql_error
              /\ final_answer = fresh.final_answer
              /\ explanation = fresh.explanation
              /\ confidence = fresh.confidence
              /\ citations = fresh.citations
              /\ repair_count = fresh.repair_count
              /\ max_repairs = fresh.max_repairs
              /\ nl2sql_calls = fresh.nl2sql_calls
              /\ router_called_model = fresh.router_called_model
              /\ synth_result = fresh.synth_result
              /\ router_answer = fresh.router_answer
              /\ search_calls = fresh.search_calls
              /\ error_feedback = fresh.error_feedback
              /\ executed_query = fresh.executed_query
              /\ trace = fresh.trace
    /\ docs_dir = "present"
    /\ runs = <<>>
    /\ batch = NoBatch

KpiSpec == KpiInit /\ [][Next]_vars

(***************************************************************************)
(* _parse_answer on every raw answer: the run has reached the synthesizer  *)
(* after one execution of a generated query (route sql, no repair allowed) *)
(* and the model answers with any text over the alphabet.                  *)
(***************************************************************************)
ParseInit ==
    /\ pc = "synthesizer"
    /\ question = {"top 3", "Which Category"}
    /\ format_hint \in FormatHints
    /\ max_repairs = 0
    /\ route = "sql"
    /\ retrieved_chunks = <<>>
    /\ constraints = EmptyDict
    /\ sql_query = QOrders
    /\ sql_results \in ExecOutcomes(QOrders)
    /\ sql_error = sql_results.error
    /\ final_answer = PyNone
    /\ explanation = ""
    /\ confidence = Finite(0)
    /\ citations = {}
    /\ repair_count = 0
    /\ nl2sql_calls = 1
    /\ router_called_model = FALSE
    /\ synth_result = NoSynthResult
    /\ router_answer = None
    /\ search_calls = 0
    /\ docs_dir = "present"
    /\ error_feedback = None
    /\ executed_query = QOrders
    /\ trace = <<"router", "planner", "nl2sql", "executor">>
    /\ runs = <<>>
    /\ batch = NoBatch

ParseNext == SynthesizerNodeWith(ParsePredictions)

ParseSpec == ParseInit /\ [][ParseNext]_vars

(***************************************************************************)
(* The claims.                                                             *)
(***************************************************************************)
Terminated == pc \in {"END", "RAISED"}

\* the execution result held in the state is a failed one
ExecFailed(res) == res.present /\ ~res.success

\* C1 as stated: in every reachable state, for every integer max_repairs
\* passed to run, repair_count <= max_repairs.
C1_CounterBoundedAnyInt == repair_count <= max_repairs

\* C1, amended: for every max_repairs >= 0 passed to run, repair_count <=
\* max_repairs in every reachable state; repair_count starts at 0 and changes
\* only by +1, in the repair stage.
C1_RepairCounter ==
    /\ repair_count = 0
    /\ [](max_repairs >= 0 => repair_count <= max_repairs)
    /\ [][repair_count' # repair_count
            => (pc = "repair" /\ repair_count' = repair_count + 1)]_vars

C1_Witness ==
    /\ pc = "synthesizer"
    /\ max_repairs = 2
    /\ repair_count = max_repairs
    /\ sql_error # None

\* C2: in a run with route sql or hybrid the query generator is invoked at
\* most max_repairs + 1 times (at most 3 times for max_repairs = 2), whatever
\* the executions return.
C2_GenerationsBounded ==
    /\ nl2sql_calls <= max_repairs + 1
    /\ (max_repairs = 2 => nl2sql_calls <= 3)

C2_Witness ==
    /\ pc = "END"
    /\ route \in {"sql", "hybrid"}
    /\ max_repairs = 2
    /\ nl2sql_calls = 3

C4_RepairTransitions ==
    [][ /\ pc = "executor" =>
              pc' = IF ExecFailed(sql_results') /\ repair_count < max_repairs
                    THEN "repair" ELSE "synthesizer"
        /\ pc = "repair" => (repair_count' = repair_count + 1 /\ pc' = "nl2sql") ]_vars

C4_Witness ==
    /\ pc = "nl2sql"
    /\ repair_count = 2
    /\ ExecFailed(sql_results)

\* C5: the confidence a run returns satisfies 0.0 <= confidence <= 1.0 for
\* every combination of signals and every self-reported confidence text,
\* a non-finite one included.
C5_ConfidenceInRange ==
    pc = "END" => (~confidence.nan /\ 0 <= confidence.v /\ confidence.v <= ConfOne)

\* the type family a format hint declares, None for free text
HintFamily(hint) ==
    IF hint = HintInt THEN "int"
    ELSE IF hint = HintFloat THEN "float"
    ELSE IF hint \in ObjectHints THEN "dict"
    ELSE IF hint \in ListHints THEN "list"
    ELSE None

\* C6: FinalAnswer always belongs to the type family format_hint declares
\* (an integer for int, a decimal for float, an object for an object hint, a
\* list for a list hint), for every raw answer and every execution result.
C6_AnswerMatchesHint ==
    (pc = "END" /\ HintFamily(format_hint) # None)
        => final_answer.t = HintFamily(format_hint)

HasNoDigit(text) == \A i \in 1..Len(text) : text[i] \notin Digits

C8_FloatFallsBackToRow ==
    (/\ pc = "END"
     /\ format_hint = HintFloat
     /\ HasNoDigit(synth_result.answer)
     /\ HasRows(sql_results)
     /\ FirstNumeric(sql_results.rows[1].pairs, 1) # PyNone)
        => final_answer = RoundFloatOfValue(FirstNumeric(sql_results.rows[1].pairs, 1))

\* C9: if format_hint is a list hint, the execution rows are non-empty and
\* the raw answer is not valid structured output (it does not parse as JSON),
\* FinalAnswer is the sequence of execution rows, in order, with every column.
C9_ListFallsBackToRows ==
    (/\ pc = "END"
     /\ format_hint \in ListHints
     /\ sql_results.rows # <<>>
     /\ ~JsonLoads(CleanAnswer(synth_result.answer)).ok)
        => final_answer = PyList(sql_results.rows)

C9_Witness ==
    /\ pc = "END"
    /\ format_hint \in ListHints
    /\ synth_result.answer = <<"[", "a", "]">>
    /\ sql_results.rows = <<RowCount, RowBeverages>>
    /\ final_answer = PyList(<<RowCount, RowBeverages>>)

\* C10: when a run terminates, FinalAnswer is present (not null) and the
\* confidence is set, for every format hint, every raw answer and every
\* collaborator outcome.
C10_AnswerPresent ==
    pc = "END" => (final_answer # PyNone /\ synth_result # NoSynthResult)

\* C11: for every question that contains a policy/definition keyword
\* ('policy', 'return window', 'return days', 'definition', in any case), the
\* Router returns 'rag' and the text-generation collaborator is not called
\* during routing.
C11_PolicyQuestionsAreRag ==
    (pc # "router" /\ Lower(question) \cap RagWords # {})
        => (route = "rag" /\ ~router_called_model /\ router_answer = None)

\* a question whose keyword is capitalised has been routed
C11_Witness ==
    /\ pc = "END"
    /\ question = {"Policy"}
    /\ route = "rag"
    /\ ~router_called_model

\* C12: the Router always returns one of 'rag', 'sql', 'hybrid'; when no
\* lexical rule matches and the model's answer, trimmed and lowercased, is
\* not one of the three routes, or the call raises, the route is 'hybrid'.
C12_RouteAlwaysValid ==
    pc # "router" =>
        /\ route \in {"rag", "sql", "hybrid"}
        /\ (router_called_model /\ router_answer = Raised) => route = "hybrid"
        /\ (router_called_model /\ router_answer \in {"both", ""}) => route = "hybrid"
        /\ (router_called_model /\ router_answer = " SQL\n") => route = "sql"

\* the model answered with a word that is no route, and the run went on as hybrid
C12_Witness ==
    /\ pc = "END"
    /\ router_called_model
    /\ router_answer = "both"
    /\ route = "hybrid"
    /\ search_calls = 1

\* C13: lexical rules take priority over the model and are applied in the
\* order rag-rule, hybrid-rule, sql-rule: a question matching any rule is
\* routed without calling the model, to the route of the first rule it
\* matches ('policy' and 'summer' give rag; 'during' and 'how many' give hybrid).
C13_LexicalRulesInOrder ==
    LET q_lower == Lower(question)
        rag == q_lower \cap RagWords # {}
        hybrid == q_lower \cap HybridWords # {}
        sql == q_lower \cap SqlWords # {}
    IN  pc # "router" =>
            /\ (rag \/ hybrid \/ sql) <=> ~router_called_model
            /\ rag => route = "rag"
            /\ (~rag /\ hybrid) => route = "hybrid"
            /\ (~rag /\ ~hybrid /\ sql) => route = "sql"

\* a question matching the hybrid rule and the sql rule was routed hybrid
C13_Witness ==
    /\ pc = "END"
    /\ {"during", "how many"} \subseteq question
    /\ route = "hybrid"
    /\ ~router_called_model

\* C14: constraint extraction never sets a 'category' constraint when the
\* question contains 'which category' or one of its equivalent phrasings (in
\* any case), for every sequence of chunks, chunks that mention a category
\* name included.
C14_NoCategoryWhenAsking ==
    Lower(question) \cap {"which category", "which product category", "what category",
                          "top category", "highest category", "best category"} # {}
        => "category" \notin DOMAIN constraints

\* the planner has run on chunks that name categories, for a question that asks
\* which category
C14_Witness ==
    /\ pc = "END"
    /\ "Which Category" \in question
    /\ route = "hybrid"
    /\ \E i \in 1..Len(retrieved_chunks) : "Beverages" \in retrieved_chunks[i].mentions
    /\ "date_range" \in DOMAIN constraints
    /\ "category" \notin DOMAIN constraints

\* the chunks, in retrieval order, whose text holds a date range
DatedChunks(chunks) == {i \in 1..Len(chunks) : chunks[i].dates # <<>>}

\* C15: when several retrieved chunks contain a date-range pattern, the
\* 'date_range' constraint the Planner records is the first match across
\* the chunks in retrieval order: the first match of the earliest chunk that
\* has one.
C15_DateRangeIsFirstMatch ==
    (/\ pc \notin {"router", "retriever", "planner"}
     /\ route \in {"sql", "hybrid"}
     /\ DatedChunks(retrieved_chunks) # {})
        => LET first == CHOOSE i \in DatedChunks(retrieved_chunks) :
                            \A j \in DatedChunks(retrieved_chunks) : i <= j
           IN  /\ "date_range" \in DOMAIN constraints
               /\ constraints["date_range"] = retrieved_chunks[first].dates[1]

\* C16: the document index is searched only in runs whose route is 'rag' or
\* 'hybrid'; in a run whose route is 'sql' the retriever is never called and
\* retrieved_chunks stays empty until the end of the run.
C16_SearchOnlyForRagOrHybrid ==
    /\ search_calls > 0 => route \in {"rag", "hybrid"}
    /\ retrieved_chunks # <<>> => route \in {"rag", "hybrid"}
    /\ route = "sql" => (pc # "retriever" /\ search_calls = 0 /\ retrieved_chunks = <<>>)

\* a sql run has executed its query and ended without any retrieval
C16_Witness ==
    /\ pc = "END"
    /\ route = "sql"
    /\ sql_results.present
    /\ search_calls = 0
    /\ retrieved_chunks = <<>>

\* C17: constraint extraction, query generation, query execution and repair
\* happen only in runs whose route is 'sql' or 'hybrid'; in a run whose
\* route is 'rag' the generator and the relational engine are never called,
\* sql_query and constraints stay empty and repair_count stays 0 up to
\* synthesis.
C17_SqlStagesOnlyForSqlOrHybrid ==
    /\ (nl2sql_calls > 0 \/ sql_results.present \/ repair_count > 0 \/ pc = "repair"
            \/ DOMAIN constraints # {})
          => route \in {"sql", "hybrid"}
    /\ route = "rag" =>
          /\ nl2sql_calls = 0
          /\ sql_query = <<>>
          /\ ~sql_results.present
          /\ sql_error = None
          /\ DOMAIN constraints = {}
          /\ repair_count = 0
          /\ pc # "repair"

\* a rag run has retrieved chunks and ended, repairs being allowed
C17_Witness ==
    /\ pc = "END"
    /\ route = "rag"
    /\ max_repairs = 2
    /\ search_calls = 1
    /\ retrieved_chunks # <<>>
    /\ nl2sql_calls = 0
    /\ ~sql_results.present

\* C18: when the generation call fails the Query Generator returns a
\* placeholder query instead of raising, and in every run with route sql or
\* hybrid each generation attempt leaves a non-empty query that is then
\* executed, also when the model's cleaned output is empty text.
C18_AlwaysAQueryToExecute ==
    /\ (pc = "executor" /\ route \in {"sql", "hybrid"}) => sql_query # <<>>
    /\ (pc \in {"repair", "synthesizer", "END", "RAISED"} /\ route \in {"sql", "hybrid"})
          => sql_results.present

\* C19: if the document index is unavailable (documents directory missing or
\* empty, or the index cannot be built or queried), retrieval yields an
\* empty chunk sequence and the run continues to synthesis instead of failing.
C19_RunSurvivesMissingIndex ==
    docs_dir \in {"missing", "empty"} =>
        /\ pc # "RAISED"
        /\ pc \in {"planner", "nl2sql", "executor", "repair", "synthesizer", "END"}
              => retrieved_chunks = <<>>

\* a < b on floats: false as soon as one side is nan
ConfLess(a, b) == ~a.nan /\ ~b.nan /\ a.v < b.v

\* C20: in a run where query execution fails on every attempt and
\* repair_count reaches max_repairs = 2, synthesis still produces a non-null
\* FinalAnswer, and the final confidence is strictly less than the final
\* confidence of the same run with zero repairs and all other signals equal
\* (same execution outcome, chunk scores and self-reported confidence).
C20_RepairPenaltyLowersConfidence ==
    (pc = "END" /\ max_repairs = 2 /\ repair_count = 2 /\ ExecFailed(sql_results))
        => /\ final_answer # PyNone
           /\ ConfLess(confidence,
                       CalculateConfidence(sql_results, retrieved_chunks, 0,
                                           synth_result.confidence))

\* the signals of the state as exact fractions of 1200: the heuristic sum h
\* of the formula and the average chunk score
AvgScore1200 ==
    IF retrieved_chunks = <<>> THEN 0
    ELSE (SumScores(retrieved_chunks) * 120) \div Len(retrieved_chunks)

HeuristicSum1200 ==
    600
    + (IF sql_results.present /\ sql_results.success THEN 240 ELSE 0)
    + (IF sql_results.present /\ sql_results.success /\ Len(sql_results.rows) >= 1
       THEN 120 ELSE 0)
    + (AvgScore1200 \div 5)
    + (IF repair_count = 0 THEN 120 ELSE 0 - 60 * repair_count)

\* the self-reported confidence of the state, parsed: a number of 1/1200, or
\* h itself when the text is not a number
SelfReported1200 ==
    LET text == synth_result.confidence
    IN  CASE text = "0.0" -> 0
          [] text = "0.9" -> 1080
          [] text = "1.5" -> 1800
          [] text = "-0.3" -> -360
          [] OTHER -> HeuristicSum1200

\* C21: the final confidence equals clamp(0, 1, (h + m) / 2), where
\* h = 0.5 + (0.2 if execution succeeded, plus 0.1 more only if it also
\* returned at least one row) + 0.2 x (average chunk score, 0 if no chunks)
\* + (0.1 if repair_count = 0, else -0.05 x repair_count), and m is the
\* model's self-reported confidence parsed as a number, or h itself when it
\* cannot be parsed.  (The text 'nan' parses, but not as a number: the
\* formula gives it no value.)
C21_ConfidenceFormula ==
    (pc = "END" /\ synth_result.confidence # "nan") =>
        LET mean == (HeuristicSum1200 + SelfReported1200) \div 2
        IN  /\ ~confidence.nan
            /\ confidence.v = (IF mean < 0 THEN 0 ELSE IF mean > 1200 THEN 1200 ELSE mean)

\* a repaired run that succeeded with rows on retrieved chunks, the model
\* reporting 0.9: (0.5 + 0.3 + 0.1 - 0.05 + 0.9) / 2 = 0.875
C21_Witness ==
    /\ pc = "END"
    /\ repair_count = 1
    /\ sql_results.success /\ sql_results.rows # <<>>
    /\ Len(retrieved_chunks) = 2
    /\ retrieved_chunks[1].score = 10 /\ retrieved_chunks[2].score = 0
    /\ synth_result.confidence = "0.9"
    /\ confidence = Finite(1050)

\* every reordering of a sequence
Reorderings(seq) ==
    { [i \in 1..Len(seq) |-> seq[p[i]]] :
        p \in { f \in [1..Len(seq) -> 1..Len(seq)] :
                  \A i, j \in 1..Len(seq) : i # j => f[i] # f[j] } }

\* C22: citation collection is idempotent and order-independent: collecting
\* again from the state the run ended in gives the same set, and permuting
\* the order of the retrieved chunks does not change the set of citations.
C22_CitationsOrderIndependent ==
    pc = "END" =>
        /\ CollectCitations(sql_query, retrieved_chunks) = citations
        /\ \A chunks \in Reorderings(retrieved_chunks) :
              CollectCitations(sql_query, chunks) = citations

\* a hybrid run ended with two chunks of different scores and a query on two tables
C22_Witness ==
    /\ pc = "END"
    /\ Len(retrieved_chunks) = 2
    /\ retrieved_chunks[1].score # retrieved_chunks[2].score
    /\ Cardinality(Reorderings(retrieved_chunks)) = 2
    /\ Len(sql_query) = 2
    /\ Cardinality(citations) = 3

\* the tables a query text of the model refers to
ReferencedTables(sql) ==
    LET toks == Flatten(sql)
        name(tok) == IF tok = "\"Order Details\"" THEN "Order Details" ELSE tok
    IN  { name(toks[i + 1]) : i \in { j \in 1..(Len(toks) - 1) : toks[j] \in {"FROM", "JOIN"} } }

\* C23: the citations of a run are exactly the union of the table names
\* referenced by the final generated query text and the ids of all chunks
\* retrieved in this run, without duplicates; hence a rag run cites no table
\* and a sql run cites no chunk id.
C23_CitationsAreTablesAndChunkIds ==
    pc = "END" =>
        citations = ReferencedTables(sql_query)
                    \cup {retrieved_chunks[i].id : i \in 1..Len(retrieved_chunks)}

\* C26: the first generation attempt of a run receives no error feedback;
\* every later attempt receives as error feedback the error text (with its
\* hints) of the execution that preceded it.
C26_FeedbackIsLastError ==
    /\ [](nl2sql_calls = 0 => error_feedback = None)
    /\ [][(pc = "nl2sql" /\ nl2sql_calls' = nl2sql_calls + 1) =>
            IF nl2sql_calls = 0
            THEN error_feedback' = None
            ELSE /\ ExecFailed(sql_results)
                 /\ sql_results.error \in ErrorTexts
                 /\ error_feedback' = sql_results.error]_vars

\* the third attempt has been given the error text the second execution left
C26_Witness ==
    /\ pc = "executor"
    /\ nl2sql_calls = 3
    /\ error_feedback = "near \"SELEC\": syntax error"
    /\ sql_error = error_feedback

\* C27: a failed execution is carried into synthesis only once the bound is
\* reached: whenever the synthesizer stage starts with a failed last
\* execution (sql_error set), repair_count equals max_repairs (for
\* max_repairs >= 0), and the synthesizer is given that failed result.
C27_FailureOnlyAtBound ==
    (pc = "synthesizer" /\ sql_error # None /\ max_repairs >= 0) =>
        /\ repair_count = max_repairs
        /\ ExecFailed(sql_results)
        /\ sql_results.error = sql_error

\* synthesis is about to start on a failure after two repairs
C27_Witness ==
    /\ pc = "synthesizer"
    /\ sql_error # None
    /\ max_repairs = 2
    /\ repair_count = 2
    /\ nl2sql_calls = 3

\* C28: the route is written exactly once, by the router stage, before any
\* route-dependent stage runs, and no later stage changes it; question,
\* format_hint and max_repairs are left unchanged by every stage.
C28_RouteWrittenOnce ==
    /\ [](pc = "router" => (route = "" /\ trace = <<>>))
    /\ [](pc # "router" => (route \in {"rag", "sql", "hybrid"} /\ CountOf(trace, "router") = 1))
    /\ [][/\ question' = question
          /\ format_hint' = format_hint
          /\ max_repairs' = max_repairs
          /\ route' # route => pc = "router"]_vars

\* a hybrid run went through every stage, repair included, and kept its route
C28_Witness ==
    /\ pc = "END"
    /\ route = "hybrid"
    /\ repair_count = 1
    /\ question = {"AOV", "during"}
    /\ CountOf(trace, "router") = 1

\* the nodes that may run directly after a node
MayFollow(node) ==
    CASE node = "router" -> {"retriever", "planner"}
      [] node = "retriever" -> {"planner"}
      [] node = "planner" -> {"nl2sql"}
      [] node = "nl2sql" -> {"executor"}
      [] node = "executor" -> {"repair", "synthesizer"}
      [] node = "repair" -> {"nl2sql"}
      [] OTHER -> {}

\* C29: stages run in the order Router, Retriever (when the route requires
\* it), Planner, the Generate/Execute/Repair loop, Synthesizer; Router,
\* Retriever, Planner and Synthesizer each run at most once per run, every
\* Execute is immediately preceded by a Generate, and no stage runs after
\* the Synthesizer.
C29_StageOrder ==
    /\ trace # <<>> => trace[1] = "router"
    /\ \A i \in 1..(Len(trace) - 1) : trace[i + 1] \in MayFollow(trace[i])
    /\ \A i \in 1..Len(trace) : trace[i] = "executor" => (i > 1 /\ trace[i - 1] = "nl2sql")
    /\ \A n \in {"router", "retriever", "planner", "synthesizer"} : CountOf(trace, n) <= 1
    /\ (Len(trace) >= 2 /\ route \in {"rag", "hybrid"}) => trace[2] = "retriever"
    /\ (Len(trace) >= 2 /\ route = "sql") => trace[2] = "planner"
    /\ executed_query # <<>> => nl2sql_calls >= 1
    /\ pc \in {"END", "RAISED"} <=> (trace # <<>> /\ trace[Len(trace)] = "synthesizer")

\* a hybrid run that repaired twice has ended
C29_Witness ==
    /\ pc = "END"
    /\ trace = <<"router", "retriever", "planner", "nl2sql", "executor", "repair",
                 "nl2sql", "executor", "repair", "nl2sql", "executor", "synthesizer">>

\* C30: when synthesis starts in a run with route sql or hybrid, the
\* execution result held in the state (sql_results, sql_error) is the result
\* of executing the query held in sql_query, the last generated query; a
\* repair attempt never leaves a result from an earlier query paired with a
\* newer query.
C30_ResultBelongsToQuery ==
    (pc = "synthesizer" /\ route \in {"sql", "hybrid"} /\ sql_results.present)
        => executed_query = sql_query
C25_RunsAreIndependent ==
    /\ \A st \in {RunState, runs.parked} :
          st.trace = <<>> =>
             st = FreshState(st.question, st.format_hint, st.max_repairs)
    /\ executed_query # <<>> => sql_results = runs.alone_result[runs.active]

(***************************************************************************)
(* C31: constraints come only from the chunks retrieved in the run: with   *)
(* no chunks _extract_constraints returns the empty mapping whatever the   *)
(* question says, a run routed sql has no constraints, and every entry of  *)
(* the constraints has a retrieved chunk whose content gives it.           *)
(***************************************************************************)
C31_ConstraintsOnlyFromChunks ==
    /\ \A q \in Questions : ExtractConstraints(q, <<>>) = EmptyDict
    /\ route = "sql" => constraints = EmptyDict
    /\ "date_range" \in DOMAIN constraints =>
          \E i \in 1..Len(retrieved_chunks) :
             /\ retrieved_chunks[i].dates # <<>>
             /\ constraints["date_range"] = retrieved_chunks[i].dates[1]
    /\ "category" \in DOMAIN constraints =>
          \E i \in 1..Len(retrieved_chunks) :
             constraints["category"] \in retrieved_chunks[i].mentions
    /\ "kpi_formula" \in DOMAIN constraints =>
          \E i \in 1..Len(retrieved_chunks) : "AOV" \in retrieved_chunks[i].mentions
    /\ "cost_approximation" \in DOMAIN constraints =>
          \E i \in 1..Len(retrieved_chunks) :
             retrieved_chunks[i].mentions \cap {"Gross Margin", "margin"} # {}
    /\ "kpi_type" \in DOMAIN constraints => retrieved_chunks # <<>>

\* the planner has run in a run routed sql whose question names a KPI
C31_Witness ==
    /\ route = "sql"
    /\ "margin" \in question
    /\ trace # <<>> /\ trace[Len(trace)] = "planner"
    /\ retrieved_chunks = <<>>
    /\ constraints = EmptyDict

(***************************************************************************)
(* C32: the constraints agree with themselves about the KPI: kpi_formula   *)
(* is present only when kpi_type is AOV, and cost_approximation only when  *)
(* kpi_type is gross_margin.  The code breaks this for a question that     *)
(* names both KPIs: both branches write kpi_type, the later write wins,    *)
(* and the entry of the other KPI stays.                                   *)
(***************************************************************************)
C32_KpiEntriesMatchKpiType ==
    /\ "kpi_formula" \in DOMAIN constraints => constraints["kpi_type"] = "AOV"
    /\ "cost_approximation" \in DOMAIN constraints =>
          constraints["kpi_type"] = "gross_margin"

====
